---- MODULE Spec2Model ----
(***************************************************************************)
(* Model of src/script.js: the ESG narrative pages.                        *)
(*                                                                         *)
(*   DATA_PROFILES      the Profile Store (a plain object literal)         *)
(*   initHomepage       the Landing Controller (card click / keydown)      *)
(*   initGeneratePage   the Report Renderer                                *)
(*   DOMContentLoaded   the boot handler and the header clock              *)
(*                                                                         *)
(* Strings are ASCII: a character outside ASCII is written as its code     *)
(* point (U+2713 is the check mark of the "Ready" label).  The long        *)
(* narrative texts are cut after their first words and end in "...".       *)
(* innerHTML markup is a sequence of element records, one per element the  *)
(* template emits, in the order the template emits them.                   *)
(***************************************************************************)
EXTENDS Naturals, Sequences, FiniteSets, TLC

VARIABLES
    page,         \* document.body data-page of the loaded document
    dom,          \* ids of the elements the loaded document holds
    cards,        \* data-topic values of the .theme-card[data-topic] elements
    booted,       \* the DOMContentLoaded handler has run
    via,          \* how the document was reached: "user" or "timer"
    session,      \* sessionStorage: a function from keys to strings
    timers,       \* pending navigation timeouts (setTimeout 1100)
    writes,       \* sessionStorage.setItem calls of the last landing document
    reads,        \* sessionStorage.getItem calls of the loaded document
    out,          \* what the script wrote to each element
    title,        \* document.title
    threw,        \* the DOMContentLoaded handler ended in an uncaught TypeError
    listeners,    \* event listeners the script registered
    fillPending,  \* requestAnimationFrame + setTimeout(300) of the integrity bar
    tsInterval,   \* setInterval(tick, 1000) is registered
    tsUpdates,    \* calls of tick() in the loaded document (capped)
    inParas,      \* input of the narrative builder under PureSpec
    outNarrative, \* markup the narrative builder produced under PureSpec
    inFrameworks, \* input of the framework-alignment builder under PureSpec
    outFwAlign    \* rows the framework-alignment builder produced under PureSpec

vars == <<page, dom, cards, booted, via, session, timers, writes, reads, out,
          title, threw, listeners, fillPending, tsInterval, tsUpdates,
          inParas, outNarrative, inFrameworks, outFwAlign>>

----------------------------------------------------------------------------
(* Bounds of the model.                                                    *)

MaxAbsent == 1      \* elements a report document may lack
MaxClicks == 2      \* accepted activations per landing document
MaxTicks  == 2      \* clock ticks counted per document
MaxParas  == 4      \* longest paragraph sequence under PureSpec
MaxFw     == 5      \* longest framework array under PureSpec

----------------------------------------------------------------------------
(* 1. DATA_PROFILES                                                        *)

Metric(p, v, u, l, c, d) ==
    [pillar |-> p, value |-> v, unit |-> u, label |-> l, change |-> c, dir |-> d]

DATA_PROFILES ==
    [climate |->
       [topic      |-> "Climate & Emissions",
        icon       |-> "U+1F30D",
        colorClass |-> "climate",
        frameworks |-> <<"GRI 305", "TCFD", "ISSB IFRS S2", "CSRD/ESRS E1", "SBTi">>,
        keyMetrics |-> <<
          Metric("E", "18,450", " tCOU+2082e", "Total Scope 1 Emissions", "U+221211.2%", "down"),
          Metric("E", "72,100", " tCOU+2082e", "Scope 2 (market-based)", "U+221214.8%", "down"),
          Metric("E", "1.5U+00B0C", "", "SBTi Pathway Alignment", "Confirmed", "flat"),
          Metric("G", "96%", "", "Data Assurance Level", "3rd-party verified", "flat"),
          Metric("E", "2038", "", "Net-Zero Target Year", "2yrs ahead of plan", "up"),
          Metric("S", "U+20AC47M", "", "Green CapEx FY2024", "U+2191 9.1% of total", "up") >>,
        pullQuote  |-> "Science-based targets without data-backed performance are promises, not progress. ...",
        paragraphs |-> <<
          "Aggregate Scope 1 and Scope 2 greenhouse gas emissions fell to ...",
          "These outcomes place the organisation on a ...",
          "Capital allocation to low-carbon infrastructure reached ...",
          "Forward guidance: At current trajectory, Scope 1 and 2 net-zero is projected by ..." >>,
        integrity  |-> 98,
        audience   |-> "CSRD Filing U+00B7 Investor Disclosure"],
     energy |->
       [topic      |-> "Energy & Efficiency",
        icon       |-> "U+26A1",
        colorClass |-> "energy",
        frameworks |-> <<"GRI 302", "ISO 50001", "EU Taxonomy", "CDP Energy", "RE100">>,
        keyMetrics |-> <<
          Metric("E", "2,140", " GWh", "Total Energy Consumed", "U+22126.3% YoY", "down"),
          Metric("E", "42%", "", "Renewable Energy Mix", "U+2191 +7 pp YoY", "up"),
          Metric("E", "U+20AC4.2M", "", "Energy Cost Avoided", "vs 2022 baseline", "up"),
          Metric("G", "847", "", "Active IoT Sensors", "15-sec refresh", "flat"),
          Metric("E", "1.8", " tCOU+2082e", "Carbon Intensity /MWh", "U+221212% vs prior year", "down"),
          Metric("S", "620", "", "Staff Energy Trained", "U+2191 34% YoY", "up") >>,
        pullQuote  |-> "Forty-two per cent renewable energy is not a ceiling ...",
        paragraphs |-> <<
          "Total energy consumption across all operational boundaries reached ...",
          "Renewable energy now accounts for ...",
          "The financial dimension of energy efficiency is equally material: ...",
          "Looking ahead, the energy roadmap to 2030 targets ..." >>,
        integrity  |-> 97,
        audience   |-> "Sustainability Report U+00B7 CDP Submission"],
     operations |->
       [topic      |-> "Operations & IoT ESG",
        icon       |-> "U+1F3ED",
        colorClass |-> "operations",
        frameworks |-> <<"GRI 303", "GRI 306", "SASB", "UN SDG 9", "UN SDG 12">>,
        keyMetrics |-> <<
          Metric("E", "94%", "", "Waste Diversion Rate", "U+2191 +3pp YoY", "up"),
          Metric("E", "U+22126.2%", "", "Water Withdrawal YoY", "vs SBT water target", "down"),
          Metric("S", "0.38", "", "TRIR (Safety Rate)", "U+221228% vs 2021", "down"),
          Metric("G", "99.1%", "", "Uptime Across Sites", "12 operating sites", "flat"),
          Metric("E", "78%", "", "Circular Material Input", "U+2191 from 71% (FY23)", "up"),
          Metric("S", "12", "", "Sites Monitored Live", "Real-time IoT", "flat") >>,
        pullQuote  |-> "When machines communicate ESG data in real time, ...",
        paragraphs |-> <<
          "Across 12 manufacturing and logistics sites, operational performance in FY2024 ...",
          "Water stewardship remains a material topic ...",
          "Circular economy performance advanced substantially. ...",
          "The broader value of IoT-enabled operations lies in ..." >>,
        integrity  |-> 96,
        audience   |-> "Board ESG Report U+00B7 SASB Industry Filing"]]

(* The own keys of the object literal. *)
Topics == DOMAIN DATA_PROFILES

(* The local tables of initGeneratePage. *)
titles ==
    [climate |->
       [title    |-> "Climate Performance & Decarbonisation Progress: FY2024 Strategic Disclosure",
        subtitle |-> "Science-based analysis of greenhouse gas trajectories, ..."],
     energy |->
       [title    |-> "Energy Transition Intelligence: Renewable Integration & Efficiency Performance FY2024",
        subtitle |-> "IoT-informed assessment of energy consumption, ..."],
     operations |->
       [title    |-> "Operational ESG Intelligence: IoT-Enabled Sustainability Performance FY2024",
        subtitle |-> "Real-time sensor data synthesis across water stewardship, ..."]]

Trend(n, s) == [name |-> n, score |-> s]

trends ==
    [climate |-> <<
        Trend("CBAM & Carbon Pricing", "97"),
        Trend("Net-Zero Corporate Commitments", "94"),
        Trend("ISSB S2 Global Adoption", "88"),
        Trend("Scope 3 Value Chain Pressure", "83") >>,
     energy |-> <<
        Trend("RE100 Corporate Renewables", "91"),
        Trend("Energy Efficiency Mandates", "86"),
        Trend("Grid Flexibility & Storage", "79"),
        Trend("Green Power Procurement", "74") >>,
     operations |-> <<
        Trend("Circular Economy Regulation", "88"),
        Trend("Water Stewardship (SBTN)", "82"),
        Trend("IoT & ESG Data Quality", "78"),
        Trend("UN SDG 12 Supply Chains", "73") >>]

----------------------------------------------------------------------------
(* JavaScript values and property access.                                  *)

(* The value undefined. *)
Undefined == [jstype |-> "undefined"]

(* Members every plain object inherits from Object.prototype: functions,
   which are truthy and have none of a profile's properties. *)
ObjectPrototype ==
    [constructor    |-> [jstype |-> "function", name |-> "Object"],
     toString       |-> [jstype |-> "function", name |-> "toString"],
     valueOf        |-> [jstype |-> "function", name |-> "valueOf"],
     hasOwnProperty |-> [jstype |-> "function", name |-> "hasOwnProperty"]]

(* table[key] on an object literal: an own property, else an inherited one,
   else undefined. *)
Lookup(table, key) ==
    IF key \in DOMAIN table THEN table[key]
    ELSE IF key \in DOMAIN ObjectPrototype THEN ObjectPrototype[key]
    ELSE Undefined

(* !value is false. *)
Truthy(value) == value # Undefined

(* obj.field is not undefined. *)
Has(obj, field) == field \in DOMAIN obj /\ field # "jstype"

(* ${obj.field} in a template literal. *)
Interp(obj, field) ==
    IF Has(obj, field)
    THEN (IF field = "integrity" THEN ToString(obj[field]) ELSE obj[field])
    ELSE "undefined"

(* el.textContent = obj.field: undefined is set as the empty string. *)
TextOf(obj, field) == IF Has(obj, field) THEN obj[field] ELSE ""

----------------------------------------------------------------------------
(* The documents the script may be loaded in.                              *)

(* Elements initGeneratePage and the clock look up by id. *)
GenRegions ==
    {"topicBadge", "reportDate", "reportHeader", "reportTypeTag", "reportTitle",
     "reportSubtitle", "dataCardsGrid", "narrativeBody", "frameworkTags",
     "integrityFill", "integrityLabel", "audienceLabel", "trendContainer",
     "fwAlignContainer", "exportBtn", "headerTimestamp"}

(* Elements initHomepage and the clock look up by id. *)
HomeRegions == {"loadingOverlay", "headerTimestamp"}

Regions == GenRegions \cup HomeRegions

(* data-topic values a theme card may carry: the three topics, a name the
   object literal inherits, and a name it does not know. *)
CardTopics == Topics \cup {"constructor", "bogus"}

(* Report documents: the full markup less at most MaxAbsent elements. *)
GenDoms == {GenRegions \ a : a \in {x \in SUBSET GenRegions : Cardinality(x) <= MaxAbsent}}

(* An element the script has not touched. *)
Untouched == [set |-> FALSE, text |-> "", cls |-> "", html |-> <<>>, style |-> ""]

EmptyOut == [id \in Regions |-> Untouched]

SetText(o, id, t)  == [o EXCEPT ![id].set = TRUE, ![id].text = t]
SetClass(o, id, c) == [o EXCEPT ![id].set = TRUE, ![id].cls = c]
SetHtml(o, id, h)  == [o EXCEPT ![id].set = TRUE, ![id].html = h]
SetStyle(o, id, w) == [o EXCEPT ![id].set = TRUE, ![id].style = w]

(* The title of the static markup, before any script ran. *)
StaticTitle == ""

----------------------------------------------------------------------------
(* 2. getReportDate: today's date in the en-GB long format.  The clock is
   not part of the model; the result is the format's pattern.             *)
getReportDate == "d MMMM yyyy"

----------------------------------------------------------------------------
(* 4. initGeneratePage: the markup builders.                               *)

(* 4f. One data card. *)
DataCard(m) ==
    [cls      |-> "esg-data-card " \o (CASE m.pillar = "E" -> "e"
                                         [] m.pillar = "S" -> "s"
                                         [] m.pillar = "G" -> "g"
                                         [] OTHER -> m.pillar),
     pillar   |-> "U+25CF " \o (IF m.pillar = "E" THEN "Environmental"
                                ELSE IF m.pillar = "S" THEN "Social"
                                ELSE "Governance"),
     value    |-> m.value,
     unit     |-> m.unit,
     label    |-> m.label,
     trendCls |-> "dc-trend " \o m.dir,
     trend    |-> (IF m.dir = "up" THEN "U+25B2"
                   ELSE IF m.dir = "down" THEN "U+25BC"
                   ELSE "U+2014") \o " " \o m.change]

DataCards(keyMetrics) == [i \in 1..Len(keyMetrics) |-> DataCard(keyMetrics[i])]

(* ParagraphBlock with the quote after the first paragraph. *)
ParagraphBlock_AfterFirst(p, i, colorClass, pullQuote) ==
    << [tag |-> "p", cls |-> "", text |-> p] >>
    \o (IF i = 0
        THEN << [tag |-> "div", cls |-> "pull-quote " \o colorClass,
                 text |-> "\"" \o pullQuote \o "\""] >>
        ELSE << >>)

(* 4g. What one turn of paras.forEach((p, i) => ...) appends to html;
   i is the JavaScript index, from 0. *)
ParagraphBlock(p, i, colorClass, pullQuote) ==
    << [tag |-> "p", cls |-> "", text |-> p] >>
    \o (IF i = 1
        THEN << [tag |-> "div", cls |-> "pull-quote " \o colorClass,
                 text |-> "\"" \o pullQuote \o "\""] >>
        ELSE << >>)

RECURSIVE NarrativeFrom(_, _, _, _)
NarrativeFrom(paras, i, colorClass, pullQuote) ==
    IF i >= Len(paras) THEN << >>
    ELSE ParagraphBlock(paras[i + 1], i, colorClass, pullQuote)
         \o NarrativeFrom(paras, i + 1, colorClass, pullQuote)

NarrativeHtml(paras, colorClass, pullQuote) ==
    NarrativeFrom(paras, 0, colorClass, pullQuote)

(* 4h. Framework tags. *)
FrameworkTags(frameworks) ==
    [i \in 1..Len(frameworks) |-> [cls |-> "fw-tag", text |-> frameworks[i]]]

(* 4k. Trend rows. *)
TrendRows(trs) ==
    [i \in 1..Len(trs) |-> [cls |-> "trend-row", name |-> trs[i].name, score |-> trs[i].score]]

(* FwStatusEntry with the status thresholds one too far. *)
FwStatusEntry_OffByOne(f, i) ==
    [name   |-> f,
     status |-> IF i <= 3 THEN "ready" ELSE IF i = 4 THEN "partial" ELSE "pending",
     label  |-> IF i < 3 THEN "U+2713 Ready" ELSE IF i = 3 THEN "U+25D1 Partial" ELSE "U+25CB Pending"]

(* 4l. One entry of fwStatus; i is the JavaScript index, from 0. *)
FwStatusEntry(f, i) ==
    [name   |-> f,
     status |-> IF i < 3 THEN "ready" ELSE IF i = 3 THEN "partial" ELSE "pending",
     label  |-> IF i < 3 THEN "U+2713 Ready" ELSE IF i = 3 THEN "U+25D1 Partial" ELSE "U+25CB Pending"]

FwStatus(frameworks) == [i \in 1..Len(frameworks) |-> FwStatusEntry(frameworks[i], i - 1)]

FwAlignRows(frameworks) ==
    LET fwStatus == FwStatus(frameworks)
    IN  [i \in 1..Len(fwStatus) |->
           [cls       |-> "fw-align-row",
            name      |-> fwStatus[i].name,
            statusCls |-> "fw-status " \o fwStatus[i].status,
            label     |-> fwStatus[i].label]]

----------------------------------------------------------------------------
(* 4. initGeneratePage, statement by statement.  A run is a record of what
   the function has done so far: the elements written, document.title, the
   listeners and the animation it registered, and whether a statement threw
   (a TypeError on a property of null or undefined ends the function).      *)

(* ResolveTopic with another default. *)
ResolveTopic_DefaultEnergy(store) ==
    IF "esg_topic" \in DOMAIN store /\ store["esg_topic"] # ""
    THEN store["esg_topic"]
    ELSE "energy"

(* ResolveTopic falling back for every value the Profile Store does not own. *)
ResolveTopic_FallbackInvalid(store) ==
    IF "esg_topic" \in DOMAIN store /\ store["esg_topic"] \in DOMAIN DATA_PROFILES
    THEN store["esg_topic"]
    ELSE "climate"

(* sessionStorage.getItem('esg_topic') || 'climate': null and the empty
   string are falsy. *)
ResolveTopic(store) ==
    IF "esg_topic" \in DOMAIN store /\ store["esg_topic"] # ""
    THEN store["esg_topic"]
    ELSE "climate"

Throw(r) == [r EXCEPT !.threw = TRUE]

(* 4a. document.title *)
Step4a(r, data) ==
    [r EXCEPT !.title = Interp(data, "topic") \o " U+2014 ESG Narrative Intelligence"]

(* 4b. topic badge *)
Step4b(r, d, data) ==
    IF r.threw \/ "topicBadge" \notin d THEN r
    ELSE [r EXCEPT !.out =
            SetClass(SetText(@, "topicBadge", Interp(data, "icon") \o " " \o Interp(data, "topic")),
                     "topicBadge", "gen-topic-badge " \o Interp(data, "colorClass"))]

(* 4c. report date *)
Step4c(r, d, today) ==
    IF r.threw \/ "reportDate" \notin d THEN r
    ELSE [r EXCEPT !.out = SetText(@, "reportDate", today)]

(* 4d. report header: reportTypeTag is used without a test. *)
Step4d(r, d, data) ==
    IF r.threw \/ "reportHeader" \notin d THEN r
    ELSE LET h == [r EXCEPT !.out = SetClass(@, "reportHeader",
                                             "report-header " \o Interp(data, "colorClass"))]
         IN  IF "reportTypeTag" \notin d THEN Throw(h)
             ELSE [h EXCEPT !.out =
                     SetText(SetClass(@, "reportTypeTag",
                                      "report-type-tag " \o Interp(data, "colorClass")),
                             "reportTypeTag",
                             Interp(data, "icon") \o "  " \o Interp(data, "topic") \o " Narrative")]

(* 4e. title and subtitle: both elements are used without a test. *)
Step4e(r, d, topic) ==
    IF r.threw THEN r
    ELSE LET t == Lookup(titles, topic)
         IN  IF "reportTitle" \notin d \/ ~Truthy(t) THEN Throw(r)
             ELSE LET a == [r EXCEPT !.out = SetText(@, "reportTitle", TextOf(t, "title"))]
                  IN  IF "reportSubtitle" \notin d THEN Throw(a)
                      ELSE [a EXCEPT !.out = SetText(@, "reportSubtitle", TextOf(t, "subtitle"))]

(* 4f. data cards: data.keyMetrics.map *)
Step4f(r, d, data) ==
    IF r.threw \/ "dataCardsGrid" \notin d THEN r
    ELSE IF ~Has(data, "keyMetrics") THEN Throw(r)
    ELSE [r EXCEPT !.out = SetHtml(@, "dataCardsGrid", DataCards(data.keyMetrics))]

(* 4g. narrative paragraphs: data.paragraphs.forEach *)
Step4g(r, d, data) ==
    IF r.threw \/ "narrativeBody" \notin d THEN r
    ELSE IF ~Has(data, "paragraphs") THEN Throw(r)
    ELSE [r EXCEPT !.out =
            SetHtml(@, "narrativeBody",
                    NarrativeHtml(data.paragraphs, Interp(data, "colorClass"),
                                  Interp(data, "pullQuote")))]

(* 4h. framework tags: data.frameworks.map *)
Step4h(r, d, data) ==
    IF r.threw \/ "frameworkTags" \notin d THEN r
    ELSE IF ~Has(data, "frameworks") THEN Throw(r)
    ELSE [r EXCEPT !.out = SetHtml(@, "frameworkTags", FrameworkTags(data.frameworks))]

(* 4i. integrity bar: the label now, the fill width in a later task. *)
Step4i(r, d, data) ==
    IF r.threw \/ "integrityFill" \notin d \/ "integrityLabel" \notin d THEN r
    ELSE [r EXCEPT !.out = SetText(@, "integrityLabel",
                                   "Narrative Integrity: " \o Interp(data, "integrity") \o "%"),
                   !.fill = << Interp(data, "integrity") \o "%" >>]

(* 4j. audience line *)
Step4j(r, d, data) ==
    IF r.threw \/ "audienceLabel" \notin d THEN r
    ELSE [r EXCEPT !.out = SetText(@, "audienceLabel", TextOf(data, "audience"))]

(* 4k. trend scores: trends[topic].map; a value that is no array has no map. *)
Step4k(r, d, topic) ==
    IF r.threw \/ "trendContainer" \notin d THEN r
    ELSE IF topic \notin DOMAIN trends THEN Throw(r)
    ELSE [r EXCEPT !.out = SetHtml(@, "trendContainer", TrendRows(trends[topic]))]

(* 4l. framework alignment: data.frameworks.map *)
Step4l(r, d, data) ==
    IF r.threw \/ "fwAlignContainer" \notin d THEN r
    ELSE IF ~Has(data, "frameworks") THEN Throw(r)
    ELSE [r EXCEPT !.out = SetHtml(@, "fwAlignContainer", FwAlignRows(data.frameworks))]

(* 4m. export button *)
Step4m(r, d) ==
    IF r.threw \/ "exportBtn" \notin d THEN r
    ELSE [r EXCEPT !.listeners = @ \cup {"exportBtn.click"}]

(* The whole function, from the document d and the storage store. *)
initGeneratePage(d, store, r0) ==
    LET topic == ResolveTopic(store)
        data  == Lookup(DATA_PROFILES, topic)
        r1    == [r0 EXCEPT !.reads = @ + 1]
    IN  IF ~Truthy(data) THEN r1
        ELSE LET today == getReportDate
                 a == Step4a(r1, data)
                 b == Step4b(a, d, data)
                 c == Step4c(b, d, today)
                 e == Step4d(c, d, data)
                 f == Step4e(e, d, topic)
                 g == Step4f(f, d, data)
                 h == Step4g(g, d, data)
                 i == Step4h(h, d, data)
                 j == Step4i(i, d, data)
                 k == Step4j(j, d, data)
                 l == Step4k(k, d, topic)
                 m == Step4l(l, d, data)
             IN  Step4m(m, d)

(* 3. initHomepage: the listeners it registers. *)
initHomepage(c) ==
    IF c = {} THEN {} ELSE {"card.click", "card.keydown"}

----------------------------------------------------------------------------
(* sessionStorage *)

EmptyStore == [k \in {} |-> ""]

setItem(store, key, value) ==
    [k \in DOMAIN store \cup {key} |-> IF k = key THEN value ELSE store[k]]

(* What tick() writes: the ISO instant cut to seconds, then " UTC".  The
   clock is not part of the model; the text is the format's pattern. *)
TickText == "YYYY-MM-DD HH:MM:SS UTC"

(* Keys a keydown event may carry. *)
Keys == {"Enter", " ", "Tab"}

(* A run of a page initialiser that has done nothing yet. *)
FreshRun(o, t) ==
    [out |-> o, title |-> t, threw |-> FALSE, listeners |-> {}, fill |-> << >>, reads |-> 0]

(* Nothing built yet under PureSpec. *)
NotBuilt == [built |-> FALSE, html |-> << >>]

pureVars == <<inParas, outNarrative, inFrameworks, outFwAlign>>

----------------------------------------------------------------------------
(* The state after the browser opened, before any document of the site is
   loaded: an empty session storage and no document.                       *)
MainInit ==
    /\ page = "blank"
    /\ dom = {}
    /\ cards = {}
    /\ booted = TRUE
    /\ via = "user"
    /\ session = EmptyStore
    /\ timers = 0
    /\ writes = 0
    /\ reads = 0
    /\ out = EmptyOut
    /\ title = StaticTitle
    /\ threw = FALSE
    /\ listeners = {}
    /\ fillPending = << >>
    /\ tsInterval = FALSE
    /\ tsUpdates = 0

Init ==
    /\ MainInit
    /\ inParas = << >>
    /\ outNarrative = NotBuilt
    /\ inFrameworks = << >>
    /\ outFwAlign = NotBuilt

(* A new document replaces the loaded one: its timers, listeners and
   element contents go with it; sessionStorage stays. *)
NewDocument(p, d, c, how) ==
    /\ page' = p
    /\ dom' = d
    /\ cards' = c
    /\ booted' = FALSE
    /\ via' = how
    /\ timers' = 0
    /\ reads' = 0
    /\ out' = EmptyOut
    /\ title' = StaticTitle
    /\ threw' = FALSE
    /\ listeners' = {}
    /\ fillPending' = << >>
    /\ tsInterval' = FALSE
    /\ tsUpdates' = 0
    /\ UNCHANGED <<session, pureVars>>

(* The user opens or reloads index.html. *)
LoadHome ==
    \E d \in SUBSET HomeRegions, c \in SUBSET CardTopics :
        /\ NewDocument("home", d, c, "user")
        /\ writes' = 0

(* The user opens or reloads generate.html. *)
LoadGenerate ==
    \E d \in GenDoms :
        /\ NewDocument("generate", d, {}, "user")
        /\ writes' = 0

(* The user opens a page with another data-page, or none. *)
LoadOther ==
    \E d \in SUBSET {"headerTimestamp"} :
        /\ NewDocument("other", d, {}, "user")
        /\ writes' = 0

(* Boot whose report initialiser removes the stored topic once it has read
   it. *)
Boot_RemovesItem ==
    /\ ~booted
    /\ booted' = TRUE
    /\ LET r0 == FreshRun(out, title)
           r  == IF page = "home" THEN [r0 EXCEPT !.listeners = initHomepage(cards)]
                 ELSE IF page = "generate" THEN initGeneratePage(dom, session, r0)
                 ELSE r0
           ts == ~r.threw /\ "headerTimestamp" \in dom
       IN  /\ out' = IF ts THEN SetText(r.out, "headerTimestamp", TickText) ELSE r.out
           /\ title' = r.title
           /\ threw' = r.threw
           /\ listeners' = r.listeners
           /\ fillPending' = r.fill
           /\ reads' = r.reads
           /\ tsInterval' = ts
           /\ tsUpdates' = IF ts THEN 1 ELSE 0
    /\ session' = IF page = "generate" THEN EmptyStore ELSE session
    /\ UNCHANGED <<page, dom, cards, via, timers, writes, pureVars>>

(* 5. The DOMContentLoaded handler: the page initialiser, then the clock.
   An exception of the initialiser ends the handler. *)
Boot ==
    /\ ~booted
    /\ booted' = TRUE
    /\ LET r0 == FreshRun(out, title)
           r  == IF page = "home" THEN [r0 EXCEPT !.listeners = initHomepage(cards)]
                 ELSE IF page = "generate" THEN initGeneratePage(dom, session, r0)
                 ELSE r0
           ts == ~r.threw /\ "headerTimestamp" \in dom
       IN  /\ out' = IF ts THEN SetText(r.out, "headerTimestamp", TickText) ELSE r.out
           /\ title' = r.title
           /\ threw' = r.threw
           /\ listeners' = r.listeners
           /\ fillPending' = r.fill
           /\ reads' = r.reads
           /\ tsInterval' = ts
           /\ tsUpdates' = IF ts THEN 1 ELSE 0
    /\ UNCHANGED <<page, dom, cards, via, session, timers, writes, pureVars>>

(* ClickHandler that schedules the navigation and forgets the write. *)
ClickHandler_NoWrite(c) ==
    LET topic == c
    IN  IF ~Truthy(Lookup(DATA_PROFILES, topic)) THEN UNCHANGED vars
        ELSE /\ timers < MaxClicks
             /\ out' = IF "loadingOverlay" \in dom
                       THEN SetClass(out, "loadingOverlay", "visible") ELSE out
             /\ timers' = timers + 1
             /\ UNCHANGED <<page, dom, cards, booted, via, session, writes, reads, title,
                            threw, listeners, fillPending, tsInterval, tsUpdates, pureVars>>

(* ClickHandler that writes a fixed identifier instead of the card's. *)
ClickHandler_WritesDefault(c) ==
    LET topic == c
    IN  IF ~Truthy(Lookup(DATA_PROFILES, topic)) THEN UNCHANGED vars
        ELSE /\ timers < MaxClicks
             /\ out' = IF "loadingOverlay" \in dom
                       THEN SetClass(out, "loadingOverlay", "visible") ELSE out
             /\ session' = setItem(session, "esg_topic", "climate")
             /\ writes' = writes + 1
             /\ timers' = timers + 1
             /\ UNCHANGED <<page, dom, cards, booted, via, reads, title, threw, listeners,
                            fillPending, tsInterval, tsUpdates, pureVars>>

(* The click listener of the card whose data-topic is c. *)
ClickHandler(c) ==
    LET topic == c
    IN  IF ~Truthy(Lookup(DATA_PROFILES, topic)) THEN UNCHANGED vars
        ELSE /\ timers < MaxClicks
             /\ out' = IF "loadingOverlay" \in dom
                       THEN SetClass(out, "loadingOverlay", "visible") ELSE out
             /\ session' = setItem(session, "esg_topic", topic)
             /\ writes' = writes + 1
             /\ timers' = timers + 1
             /\ UNCHANGED <<page, dom, cards, booted, via, reads, title, threw, listeners,
                            fillPending, tsInterval, tsUpdates, pureVars>>

(* The user clicks a card. *)
ClickCard ==
    \E c \in cards :
        /\ page = "home"
        /\ "card.click" \in listeners
        /\ ClickHandler(c)

(* The user presses a key on a focused card: Enter and Space click it. *)
KeyDown ==
    \E c \in cards, key \in Keys :
        /\ page = "home"
        /\ "card.keydown" \in listeners
        /\ IF key = "Enter" \/ key = " " THEN ClickHandler(c) ELSE UNCHANGED vars

(* A navigation timeout fires: window.location.href = 'generate.html'. *)
NavTimerFire ==
    /\ page = "home"
    /\ timers > 0
    /\ \E d \in GenDoms : NewDocument("generate", d, {}, "timer")
    /\ UNCHANGED writes

(* The animation task of 4i sets the fill width. *)
IntegrityFillFire ==
    /\ fillPending # << >>
    /\ out' = SetStyle(out, "integrityFill", fillPending[1])
    /\ fillPending' = << >>
    /\ UNCHANGED <<page, dom, cards, booted, via, session, timers, writes, reads, title,
                   threw, listeners, tsInterval, tsUpdates, pureVars>>

(* The one-second interval of the header clock. *)
Tick ==
    /\ tsInterval
    /\ tsUpdates < MaxTicks
    /\ out' = SetText(out, "headerTimestamp", TickText)
    /\ tsUpdates' = tsUpdates + 1
    /\ UNCHANGED <<page, dom, cards, booted, via, session, timers, writes, reads, title,
                   threw, listeners, fillPending, tsInterval, pureVars>>

Next ==
    \/ LoadHome
    \/ LoadGenerate
    \/ LoadOther
    \/ Boot
    \/ ClickCard
    \/ KeyDown
    \/ NavTimerFire
    \/ IntegrityFillFire
    \/ Tick

Spec == Init /\ [][Next]_vars

(* The event loop runs a timeout that is due: a pending navigation timeout
   fires unless the document is replaced first. *)
FairSpec == Spec /\ WF_vars(NavTimerFire)

----------------------------------------------------------------------------
(* The two markup builders of 4g and 4l on their own, over every input up
   to a length: the profiles of the source all hold four paragraphs and
   five frameworks.                                                        *)

ParaTexts == {"A", "B"}
FwNames   == {"X", "Y"}

BoundedSeq(S, n) == UNION {[1..k -> S] : k \in 0..n}

mainVars == <<page, dom, cards, booted, via, session, timers, writes, reads, out,
              title, threw, listeners, fillPending, tsInterval, tsUpdates>>

PureInit ==
    /\ MainInit
    /\ inParas \in BoundedSeq(ParaTexts, MaxParas)
    /\ outNarrative = NotBuilt
    /\ inFrameworks \in BoundedSeq(FwNames, MaxFw)
    /\ outFwAlign = NotBuilt

BuildNarrative ==
    /\ outNarrative' = [built |-> TRUE,
                        html  |-> NarrativeHtml(inParas, DATA_PROFILES.climate.colorClass,
                                                DATA_PROFILES.climate.pullQuote)]
    /\ UNCHANGED <<mainVars, inParas, inFrameworks, outFwAlign>>

BuildFwAlign ==
    /\ outFwAlign' = [built |-> TRUE, html |-> FwAlignRows(inFrameworks)]
    /\ UNCHANGED <<mainVars, inParas, inFrameworks, outNarrative>>

PureNext ==
    \/ BuildNarrative
    \/ BuildFwAlign

PureSpec == PureInit /\ [][PureNext]_vars

----------------------------------------------------------------------------
(* Properties.                                                             *)

HasItem == "esg_topic" \in DOMAIN session

(* The stored value, or the empty string when there is none. *)
Stored == IF HasItem THEN session["esg_topic"] ELSE ""

GenBooted == page = "generate" /\ booted

ByTimer == page = "generate" /\ via = "timer"

ClimateDocTitle == "Climate & Emissions U+2014 ESG Narrative Intelligence"

ClimateReportTitle ==
    "Climate Performance & Decarbonisation Progress: FY2024 Strategic Disclosure"

(* The element id, present in the document, shows the work of its step of
   initGeneratePage.  The integrity bar is one step on two elements; the
   type tag belongs to the header's step; the fill width comes in a later
   task; the header clock is not a step of initGeneratePage. *)
Populated(id) ==
    CASE id = "exportBtn"       -> "exportBtn.click" \in listeners
      [] id = "integrityFill"   -> "integrityLabel" \in dom =>
                                      (fillPending # << >> \/ out[id].set)
      [] id = "integrityLabel"  -> "integrityFill" \in dom => out[id].set
      [] id = "reportTypeTag"   -> "reportHeader" \in dom => out[id].set
      [] id = "headerTimestamp" -> TRUE
      [] OTHER                  -> out[id].set

(* C1: for a valid resolved topic, whatever elements the report document
   lacks, initGeneratePage does not throw and every element present is
   populated. *)
C1_EveryStepGuarded ==
    (GenBooted /\ ResolveTopic(session) \in Topics) =>
        /\ ~threw
        /\ \A id \in dom : Populated(id)

(* C2: with no stored 'esg_topic', the report shows the climate profile:
   its document title, its badge, and, in a complete document, its report
   title and the integrity label of 98. *)
C2_DefaultsToClimate ==
    (GenBooted /\ ~HasItem) =>
        /\ title = ClimateDocTitle
        /\ "topicBadge" \in dom => out["topicBadge"].text = "U+1F30D Climate & Emissions"
        /\ out["reportTitle"].set => out["reportTitle"].text = ClimateReportTitle
        /\ out["integrityLabel"].set =>
              out["integrityLabel"].text = "Narrative Integrity: 98%"
        /\ dom = GenRegions =>
              /\ ~threw
              /\ out["reportTitle"].set
              /\ out["integrityLabel"].set
              /\ out["narrativeBody"].html[1].text = DATA_PROFILES.climate.paragraphs[1]

C2_Witness ==
    /\ GenBooted /\ ~HasItem /\ dom = GenRegions
    /\ out["integrityLabel"].text = "Narrative Integrity: 98%"
    /\ out["reportTitle"].text = ClimateReportTitle

C4_InvalidIsNoOp ==
    (GenBooted /\ HasItem /\ Stored \notin Topics) =>
        /\ ~threw
        /\ title = StaticTitle
        /\ \A id \in GenRegions \ {"headerTimestamp"} : out[id] = Untouched
        /\ listeners = {}

(* C5: the stored value is absent or one of the valid topic identifiers. *)
C5_SessionValueValid ==
    HasItem => Stored \in Topics

(* C6 as stated: the navigation to the report follows exactly one write, and
   the report reads the value exactly once. *)
C6_WrittenOnceReadOnce ==
    ByTimer => (writes = 1 /\ (booted => reads = 1))

(* C6 as amended: the landing document writes once per accepted activation,
   each of which schedules one navigation, so at least once before the
   navigation; the report reads exactly once. *)
C6_WrittenPerActivation ==
    /\ page = "home" => writes = timers
    /\ ByTimer => (writes >= 1 /\ reads = (IF booted THEN 1 ELSE 0))
    /\ GenBooted => reads = 1

C6_Witness ==
    ByTimer /\ booted /\ writes = 2 /\ reads = 1

(* The state part of C7: a pending navigation has a write behind it, of
   the identifier of one of the document's cards; the report is reached by
   the timer only after a write; and the report then shows the profile of
   the stored topic. *)
C7_State ==
    /\ (page = "home" /\ timers > 0) =>
          (HasItem /\ writes >= 1 /\ Stored \in cards)
    /\ ByTimer => (HasItem /\ writes >= 1)
    /\ (ByTimer /\ booted /\ Stored \in Topics) =>
          /\ title = DATA_PROFILES[Stored].topic \o " U+2014 ESG Narrative Intelligence"
          /\ "topicBadge" \in dom =>
                out["topicBadge"].cls = "gen-topic-badge " \o Stored
          /\ out["reportTitle"].set => out["reportTitle"].text = titles[Stored].title
          /\ (~threw /\ "narrativeBody" \in dom) =>
                out["narrativeBody"].html[1].text = DATA_PROFILES[Stored].paragraphs[1]

(* The user activates the card of topic c: the step of its click listener. *)
ActivationOf(c) ==
    /\ page = "home"
    /\ c \in cards
    /\ "card.click" \in listeners
    /\ ClickHandler(c)

(* C7: every activation of a card with a valid topic writes that identifier
   and schedules the navigation in the same step; a pending navigation
   takes place unless the document is replaced first; the report is never
   reached by the timer without a write, and it shows the stored topic's
   profile. *)
C7_WriteThenNavigate ==
    /\ []C7_State
    /\ [][\A c \in Topics :
            ActivationOf(c) => (session'["esg_topic"] = c /\ timers' = timers + 1)]_vars
    /\ [][timers' > timers => (writes' = writes + 1 /\ "esg_topic" \in DOMAIN session')]_vars
    /\ ((page = "home" /\ timers > 0) ~>
            (ByTimer \/ (via = "user" /\ timers = 0)))

C7_Witness ==
    /\ ByTimer /\ booted /\ Stored = "energy"
    /\ title = "Energy & Efficiency U+2014 ESG Narrative Intelligence"

(* The paragraph texts of a markup, in order. *)
ParagraphsOf(html) ==
    LET ps == SelectSeq(html, LAMBDA e : e.tag = "p")
    IN  [i \in 1..Len(ps) |-> ps[i].text]

IsPullQuote(e) ==
    /\ e.tag = "div"
    /\ e.cls = "pull-quote climate"
    /\ e.text = "\"" \o DATA_PROFILES.climate.pullQuote \o "\""

(* C8: the narrative markup holds every paragraph in order; with two or
   more paragraphs it holds exactly one pull-quote block, right after the
   second paragraph; with fewer it holds none. *)
C8_PullQuoteAfterSecond ==
    outNarrative.built =>
        LET html == outNarrative.html
            n    == Len(inParas)
            quotes == {i \in 1..Len(html) : html[i].tag # "p"}
        IN  /\ ParagraphsOf(html) = inParas
            /\ n >= 2 => /\ quotes = {3}
                         /\ IsPullQuote(html[3])
                         /\ Len(html) = n + 1
            /\ n < 2  => /\ quotes = {}
                         /\ Len(html) = n

C8_Witness ==
    /\ outNarrative.built
    /\ inParas = <<"A", "B", "A">>
    /\ Len(outNarrative.html) = 4
    /\ outNarrative.html[3].tag = "div"

(* C9: one row per framework, in order; the row of index i (from 0) is
   ready below 3, partial at 3, pending above, and carries that status's
   label. *)
C9_StatusByIndex ==
    outFwAlign.built =>
        LET rows == outFwAlign.html
        IN  /\ Len(rows) = Len(inFrameworks)
            /\ \A k \in 1..Len(rows) :
                  LET i == k - 1
                  IN  /\ rows[k].name = inFrameworks[k]
                      /\ i < 3 => (rows[k].statusCls = "fw-status ready"
                                   /\ rows[k].label = "U+2713 Ready")
                      /\ i = 3 => (rows[k].statusCls = "fw-status partial"
                                   /\ rows[k].label = "U+25D1 Partial")
                      /\ i > 3 => (rows[k].statusCls = "fw-status pending"
                                   /\ rows[k].label = "U+25CB Pending")

C9_Witness ==
    /\ outFwAlign.built
    /\ Len(inFrameworks) = 5
    /\ outFwAlign.html[4].statusCls = "fw-status partial"
    /\ outFwAlign.html[5].statusCls = "fw-status pending"

(* C10: in every booted document that holds headerTimestamp the clock has
   written the element and its interval is registered, whatever the page
   initialiser did. *)
C10_ClockAlwaysStarts ==
    (booted /\ page # "blank" /\ "headerTimestamp" \in dom) =>
        /\ out["headerTimestamp"].set
        /\ tsUpdates >= 1
        /\ tsInterval

(* C11: the identifier an activation was accepted for, which is the stored
   one, has a non-empty entry of its own in the Profile Store, in titles
   and in trends; and the report of a complete document, rendered for a
   stored identifier, meets no missing table entry: it does not throw. *)
C11_AcceptedHasEntries ==
    /\ HasItem =>
          /\ Stored \in DOMAIN DATA_PROFILES
          /\ Stored \in DOMAIN titles
          /\ Stored \in DOMAIN trends
          /\ DATA_PROFILES[Stored].paragraphs # << >>
          /\ titles[Stored].title # ""
          /\ trends[Stored] # << >>
    /\ (GenBooted /\ HasItem /\ dom = GenRegions) => ~threw

(* C12: no step taken while the report document is loaded, its
   initialiser included, changes the stored value; a stored value is never
   removed; and the stored value changes only in a step of the landing
   document that schedules a navigation, to the identifier of one of its
   cards.  The Profile Store is a constant of the program: no statement
   assigns to DATA_PROFILES or to a member of it. *)
C12_SessionFrame ==
    /\ [][page = "generate" => session' = session]_vars
    /\ [][HasItem => "esg_topic" \in DOMAIN session']_vars
    /\ [][session' # session =>
            /\ page = "home" /\ page' = "home" /\ booted
            /\ timers' = timers + 1
            /\ "esg_topic" \in DOMAIN session'
            /\ session'["esg_topic"] \in cards]_vars

(* A report document loaded by the user after a write, rendered, with the
   value still stored. *)
C12_Witness ==
    /\ GenBooted /\ via = "user" /\ reads = 1
    /\ Stored = "operations"
    /\ title = "Operations & IoT ESG U+2014 ESG Narrative Intelligence"

====
